---- MODULE Spec2Model ----
(***************************************************************************)
(* Model of fairpyx/algorithms/markakis_psomas.py:                         *)
(*   compute_vn                        - the guarantee function Vn(alpha)  *)
(*   algorithm1_worst_case_allocation  - the recursive allocation          *)
(*                                                                         *)
(* Numbers.  The program computes with Python floats.  The model computes  *)
(* with exact values of the form  num/den + off*delta  where num/den is a  *)
(* rational with den > 0 and delta is a positive quantity smaller than any *)
(* gap math.isclose can tell apart at the magnitudes the model reaches     *)
(* (delta*|off| is below rel_tol times every non-zero num/den).  off = 0   *)
(* is the rational itself; off # 0 is a value inside the closeness         *)
(* tolerance of it, just above (off > 0) or just below (off < 0).          *)
(* The allocation only ever builds values with off = 0 (quotients of the   *)
(* integer valuations); the inputs of compute_vn on its own are drawn with *)
(* off in -1..1.                                                           *)
(***************************************************************************)
EXTENDS Integers, Sequences, FiniteSets, TLC

\* ------------------------------------------------------------------ bounds
MaxAgents == 2
MaxItems == 2
MaxVal == 1
\* compute_vn on its own: alpha = p/q + off*delta with q <= MaxDen, n <= MaxN
MaxDen == 6
MaxN == 5

\* ------------------------------------------------------- program constants
\* range(1, 1000): k runs over 1 .. KStop - 1
KStop == 1000
\* math.isclose default rel_tol = 1e-09, as its inverse
RelTolInv == 1000000000

\* the instances of the doctests and of the main block; valuations[agent][item],
\* agents and items numbered in their declared order (A = 1, B = 2, ...;
\* item "1" = 1, ...)
Example1 == << <<6, 3, 1>>, <<2, 5, 5>> >>
Example2 == << <<7, 2, 1, 1>>, <<3, 6, 1, 2>>, <<2, 3, 5, 5>> >>
Example3 == << <<10, 3, 1, 1, 2>>, <<5, 8, 3, 2, 2>>, <<1, 3, 9, 6, 5>>,
               <<2, 2, 2, 8, 6>> >>
Example4 == [a \in 1..6 |-> [i \in 1..6 |-> IF i = a THEN 9 ELSE 1]]
MainExample == << <<8, 6, 10>>, <<8, 10, 6>>, <<6, 8, 10>> >>
SourceInstances == {Example1, Example2, Example3, Example4, MainExample}

\* instances of two or three agents over four items, each valued 1 or 2: an
\* agent's most valued item alone is below its threshold, so that the growth
\* loop takes more than one round
ManyItemRows == [1..4 -> {1, 2}]
ManyItemInstances == UNION {[1..N -> ManyItemRows] : N \in 2..3}

\* float('-inf'), the effective value of an item that is forbidden for an
\* agent; the values of the other items are not negative
NegInf == -1

\* instances in which some item is forbidden for some agent
ForbiddenRows == [1..3 -> {NegInf, 1, 2}]
ForbiddenInstances ==
  {v \in UNION {[1..N -> ForbiddenRows] : N \in 1..2} :
     \E a \in DOMAIN v : \E i \in DOMAIN v[a] : v[a][i] = NegInf}

VARIABLES
  valuations,        \* instance: valuations[agent][item]
  remaining_agents,  \* alloc.remaining_agents(), in stable order
  remaining_items,   \* alloc.remaining_items(), in item order
  alloc_bundles,     \* alloc.bundles: agent -> sequence of items given
  pc,                \* position in algorithm1_worst_case_allocation
  bundles,           \* local: candidate bundle per remaining agent
  values,            \* local: accumulated value per remaining agent
  pointers,          \* local: pointer per remaining agent
  Vn_alpha_i,        \* local: absolute threshold per remaining agent
  sorted_items,      \* local: items sorted by own value, descending
  calls,             \* number of invocations entered so far
  given,             \* history: agent -> [n, items, threshold] of the level
                     \* at which give_bundle was called for it
  vn_alpha, vn_n, vn_result, vn_pc  \* compute_vn applied on its own

vars == << valuations, remaining_agents, remaining_items, alloc_bundles, pc,
           bundles, values, pointers, Vn_alpha_i, sorted_items, calls, given,
           vn_alpha, vn_n, vn_result, vn_pc >>

allocVars == << valuations, remaining_agents, remaining_items, alloc_bundles,
                pc, bundles, values, pointers, Vn_alpha_i, sorted_items,
                calls, given >>

vnVars == << vn_alpha, vn_n, vn_result, vn_pc >>

\* ------------------------------------------------------------ arithmetic
Abs(x) == IF x < 0 THEN -x ELSE x
MaxOf(x, y) == IF x < y THEN y ELSE x

Num(v, d, o) == [num |-> v, den |-> d, off |-> o]
Rat(v, d) == Num(v, d, 0)
Zero == Rat(0, 1)
\* the float -inf: below every rational, equal to itself
NegInfinity == Num(NegInf, 0, 0)

\* sign of a.num/a.den - b.num/b.den
Cross(a, b) == a.num * b.den - b.num * a.den

Less(a, b) == Cross(a, b) < 0 \/ (Cross(a, b) = 0 /\ a.off < b.off)
Leq(a, b) == Cross(a, b) < 0 \/ (Cross(a, b) = 0 /\ a.off <= b.off)
Equal(a, b) == Cross(a, b) = 0 /\ a.off = b.off

\* math.isclose(a, b): abs(a-b) <= rel_tol * max(abs(a), abs(b)), abs_tol = 0.
\* Between two values around the same non-zero rational the offsets are
\* inside the tolerance; around 0 the right-hand side is itself of order
\* delta*rel_tol, so only equal values are close.
IsClose(a, b) ==
  IF Cross(a, b) = 0
  THEN a.num # 0 \/ a.off = b.off
  ELSE Abs(Cross(a, b)) <=
         MaxOf(Abs(a.num) * b.den, Abs(b.num) * a.den) \div RelTolInv

\* 1 - c * a   for an integer c
OneMinusTimes(c, a) == Num(a.den - c * a.num, a.den, -(c * a.off))
\* a * t   for an integer t
Scale(a, t) == Num(a.num * t, a.den, a.off * t)

\* ------------------------------------------------------------ compute_vn
I_left(n, k) == Rat(k + 1, k * ((k + 1) * n - 1))
I_right(n, k) == Rat(1, k * n - 1)
NI_left(n, k) == Rat(1, (k + 1) * n - 1)
NI_right(n, k) == Rat(k + 1, k * ((k + 1) * n - 1))

InI(alpha, n, k) ==
  \/ (Leq(I_left(n, k), alpha) /\ Leq(alpha, I_right(n, k)))
  \/ IsClose(alpha, I_left(n, k))
  \/ IsClose(alpha, I_right(n, k))

InNI(alpha, n, k) ==
  \/ (Less(NI_left(n, k), alpha) /\ Less(alpha, NI_right(n, k)))
  \/ IsClose(alpha, NI_left(n, k))
  \/ IsClose(alpha, NI_right(n, k))

\* the value returned at the first k of the loop at which a test succeeds
VnAt(alpha, n, k) ==
  IF InI(alpha, n, k)
  THEN OneMinusTimes(k * (n - 1), alpha)
  ELSE OneMinusTimes(1, Rat((k + 1) * (n - 1), (k + 1) * n - 1))

compute_vn(alpha, n) ==
  IF n <= 1 THEN Zero
  ELSE IF Equal(alpha, Zero) THEN Rat(1, n)
  ELSE IF \E k \in 1..(KStop - 1) : InI(alpha, n, k) \/ InNI(alpha, n, k)
       THEN VnAt(alpha, n,
                 CHOOSE k \in 1..(KStop - 1) :
                   /\ InI(alpha, n, k) \/ InNI(alpha, n, k)
                   /\ \A j \in 1..(k - 1) :
                        ~(InI(alpha, n, j) \/ InNI(alpha, n, j)))
       ELSE Zero

\* ------------------------------------------------- the allocation state
\* (AllocationBuilder is not part of the source file; these follow the
\* description of the allocation state it is used through.)
Range(seq) == {seq[j] : j \in 1..Len(seq)}

\* the subsequence of seq without the members of the set S
Without(seq, S) == SelectSeq(seq, LAMBDA x : x \notin S)

effective_value(agent, item) == valuations[agent][item]

\* remaining_items_for_agent(agent): the remaining items, in item order
remaining_items_for_agent(agent) == remaining_items

\* give_bundle(agent, bundle): records the bundle for the agent and takes
\* the agent and the items of the bundle out of further consideration
GiveBundleBundles(agent, bundle) ==
  [alloc_bundles EXCEPT ![agent] = @ \o bundle]
GiveBundleItems(agent, bundle) == Without(remaining_items, Range(bundle))
GiveBundleAgents(agent, bundle) == Without(remaining_agents, {agent})

\* remove_agent_from_loop(agent), applied to a sequence of remaining agents
remove_agent_from_loop(agents, agent) == Without(agents, {agent})

\* ------------------------------------- algorithm1_worst_case_allocation
RECURSIVE SumSeq(_)
SumSeq(seq) == IF seq = << >> THEN 0 ELSE Head(seq) + SumSeq(Tail(seq))

\* max(values_list, default=0)
MaxSeq(seq) ==
  IF seq = << >> THEN 0
  ELSE CHOOSE x \in Range(seq) : \A y \in Range(seq) : y <= x

\* values_list of an agent over a sequence of items, for a valuation row
ValuesList(row, items) == [j \in 1..Len(items) |-> row[items[j]]]

\* sum(values_list): -inf as soon as one of the values is -inf
SumValues(values_list) ==
  IF NegInf \in Range(values_list) THEN NegInf ELSE SumSeq(values_list)

\* alpha = max_val / total_val if total_val > 0 else 0
AlphaOf(row, items) ==
  LET values_list == ValuesList(row, items)
      max_val == MaxSeq(values_list)
      total_val == SumValues(values_list)
  IN IF total_val > 0 THEN Rat(max_val, total_val) ELSE Zero

\* Every (alpha, n) the allocation can pass to compute_vn: on the bounded
\* instances alpha is 0 or p/q with p <= MaxVal and q <= MaxVal * MaxItems; on
\* the four-item instances p <= 2 and q <= 8; on an instance of the source
\* file it is the alpha of an agent over some of the items.
ItemSeqs(v) ==
  {SelectSeq([i \in 1..Len(v[1]) |-> i], LAMBDA x : x \in S) :
     S \in SUBSET (1..Len(v[1]))}

VnInputs ==
  {<<Zero, n>> : n \in 0..MaxAgents}
  \cup {<<Rat(p, q), n>> :
          p \in 1..MaxVal, q \in 1..(MaxVal * MaxItems), n \in 0..MaxAgents}
  \cup {<<Rat(p, q), n>> : p \in {1, 2}, q \in 1..8, n \in 0..3}
  \cup UNION {{<<AlphaOf(v[a], items), n>> :
                 a \in 1..Len(v), items \in ItemSeqs(v), n \in 0..Len(v)} :
              v \in SourceInstances}

\* compute_vn tabulated over VnInputs, so that each value is computed once
\* for the whole state space and not once per state
VnTable == [x \in VnInputs |-> compute_vn(x[1], x[2])] @@ << >>

\* mutant: the threshold is Vn_alpha itself, not multiplied by total_val
ThresholdOfUnscaled(row, items, n) == VnTable[<<AlphaOf(row, items), n>>]

\* mutant: Vn_alpha + total_val in place of Vn_alpha * total_val
ThresholdOfSum(row, items, n) ==
  LET Vn_alpha == VnTable[<<AlphaOf(row, items), n>>]
      total_val == SumSeq(ValuesList(row, items))
  IN Num(Vn_alpha.num + total_val * Vn_alpha.den, Vn_alpha.den, Vn_alpha.off)

\* Vn_alpha_i[agent] = compute_vn(alpha, n) * total_val. With total_val = -inf
\* alpha is 0, Vn_alpha is 1/n > 0 and the product is -inf.
ThresholdOf(row, items, n) ==
  LET Vn_alpha == VnTable[<<AlphaOf(row, items), n>>]
      total_val == SumValues(ValuesList(row, items))
  IN IF total_val = NegInf THEN NegInfinity ELSE Scale(Vn_alpha, total_val)

\* mutant: the sort without reverse=True (ascending)
SortedItemsAscending(row, items) ==
  LET Before(p, q) == row[items[p]] < row[items[q]]
                      \/ (row[items[p]] = row[items[q]] /\ p < q)
      Rank(p) == 1 + Cardinality({q \in 1..Len(items) : Before(q, p)})
  IN [r \in 1..Len(items) |->
        items[CHOOSE p \in 1..Len(items) : Rank(p) = r]]

\* mutant: descending, but equal values in reverse item order (the result
\* of sorting ascending and then reversing)
SortedItemsTiesReversed(row, items) ==
  LET Before(p, q) == row[items[p]] > row[items[q]]
                      \/ (row[items[p]] = row[items[q]] /\ p > q)
      Rank(p) == 1 + Cardinality({q \in 1..Len(items) : Before(q, p)})
  IN [r \in 1..Len(items) |->
        items[CHOOSE p \in 1..Len(items) : Rank(p) = r]]

\* sorted(items, key=value, reverse=True): stable, descending
SortedItems(row, items) ==
  LET Before(p, q) == row[items[p]] > row[items[q]]
                      \/ (row[items[p]] = row[items[q]] /\ p < q)
      Rank(p) == 1 + Cardinality({q \in 1..Len(items) : Before(q, p)})
  IN [r \in 1..Len(items) |->
        items[CHOOSE p \in 1..Len(items) : Rank(p) = r]]

\* mutant: values[agent] <= Vn_alpha_i[agent] in the while condition
AllBelowOrEqual ==
  \A agent \in Range(remaining_agents) :
    Leq(Rat(values[agent], 1), Vn_alpha_i[agent])

\* the condition of the while loop
AllBelow ==
  \A agent \in Range(remaining_agents) :
    Less(Rat(values[agent], 1), Vn_alpha_i[agent])

\* mutant: values[agent] > Vn_alpha_i[agent]
PassedStrictly(agent) == Less(Vn_alpha_i[agent], Rat(values[agent], 1))

\* values[agent] >= Vn_alpha_i[agent]
Passed(agent) == Leq(Vn_alpha_i[agent], Rat(values[agent], 1))

\* the condition of the break
AllExhausted(ptrs) ==
  \A agent \in Range(remaining_agents) :
    ptrs[agent] >= Len(sorted_items[agent])

NoLocals == << >>

Instances ==
  UNION { [1..N -> [1..M -> 0..MaxVal]] : N \in 1..MaxAgents, M \in 1..MaxItems }

InitAlloc(v) ==
  /\ valuations = v
  /\ remaining_agents = [a \in 1..Len(v) |-> a]
  /\ remaining_items = [i \in 1..Len(v[1]) |-> i]
  /\ alloc_bundles = [a \in 1..Len(v) |-> << >>]
  /\ pc = "call"
  /\ bundles = NoLocals
  /\ values = NoLocals
  /\ pointers = NoLocals
  /\ Vn_alpha_i = NoLocals
  /\ sorted_items = NoLocals
  /\ calls = 0
  /\ given = << >>

VnIdle ==
  /\ vn_alpha = Zero
  /\ vn_n = 0
  /\ vn_result = Zero
  /\ vn_pc = "idle"

Init ==
  /\ \E v \in Instances \cup SourceInstances \cup ManyItemInstances :
       InitAlloc(v)
  /\ VnIdle

\* mutant: the base case gives the last agent no items
BaseCaseGivesNothing ==
  /\ pc = "call"
  /\ Len(remaining_agents) = 1
  /\ LET agent == remaining_agents[1]
     IN /\ remaining_agents' = GiveBundleAgents(agent, << >>)
        /\ given' = (agent :> [n |-> 1, items |-> remaining_items,
                               threshold |-> Zero]) @@ given
  /\ calls' = calls + 1
  /\ pc' = "done"
  /\ UNCHANGED << valuations, remaining_items, alloc_bundles, bundles, values,
                  pointers, Vn_alpha_i, sorted_items >>
  /\ UNCHANGED vnVars

\* lines 153-161: n == 1
BaseCase ==
  /\ pc = "call"
  /\ Len(remaining_agents) = 1
  /\ LET agent == remaining_agents[1]
         items == remaining_items_for_agent(agent)
     IN /\ alloc_bundles' = GiveBundleBundles(agent, items)
        /\ remaining_items' = GiveBundleItems(agent, items)
        /\ remaining_agents' = GiveBundleAgents(agent, items)
        /\ given' = (agent :> [n |-> 1, items |-> remaining_items,
                               threshold |-> Zero]) @@ given
  /\ calls' = calls + 1
  /\ pc' = "done"
  /\ UNCHANGED << valuations, bundles, values, pointers, Vn_alpha_i,
                  sorted_items >>
  /\ UNCHANGED vnVars

\* mutant: the general case also taken when one agent remains
PrecomputeAnyN ==
  /\ pc = "call"
  /\ calls <= Len(valuations)
  /\ LET n == Len(remaining_agents)
         A == Range(remaining_agents)
     IN /\ bundles' = [agent \in A |-> << >>]
        /\ values' = [agent \in A |-> 0]
        /\ pointers' = [agent \in A |-> 0]
        /\ Vn_alpha_i' = [agent \in A |->
             ThresholdOf(valuations[agent], remaining_items_for_agent(agent), n)]
        /\ sorted_items' = [agent \in A |->
             SortedItems(valuations[agent], remaining_items_for_agent(agent))]
  /\ calls' = calls + 1
  /\ pc' = "while"
  /\ UNCHANGED << valuations, remaining_agents, remaining_items,
                  alloc_bundles, given >>
  /\ UNCHANGED vnVars

\* lines 153-184: n # 1; the locals, the thresholds and the sorted lists.
\* Invocations are followed up to one more than the number of agents: a run
\* that recurses beyond that never reaches its base case (the program then
\* stops at the interpreter's recursion limit).
Precompute ==
  /\ pc = "call"
  /\ Len(remaining_agents) # 1
  /\ calls <= Len(valuations)
  /\ LET n == Len(remaining_agents)
         A == Range(remaining_agents)
     IN /\ bundles' = [agent \in A |-> << >>]
        /\ values' = [agent \in A |-> 0]
        /\ pointers' = [agent \in A |-> 0]
        /\ Vn_alpha_i' = [agent \in A |->
             ThresholdOf(valuations[agent], remaining_items_for_agent(agent), n)]
        /\ sorted_items' = [agent \in A |->
             SortedItems(valuations[agent], remaining_items_for_agent(agent))]
  /\ calls' = calls + 1
  /\ pc' = "while"
  /\ UNCHANGED << valuations, remaining_agents, remaining_items,
                  alloc_bundles, given >>
  /\ UNCHANGED vnVars

\* lines 187-198: one iteration of the while loop
GrowRound ==
  /\ pc = "while"
  /\ AllBelow
  /\ LET A == Range(remaining_agents)
         Takes(agent) == pointers[agent] < Len(sorted_items[agent])
         item(agent) == sorted_items[agent][pointers[agent] + 1]
         val(agent) == effective_value(agent, item(agent))
         Adds(agent) == Takes(agent) /\ val(agent) # NegInf
         ptrs == [agent \in A |->
                   IF Takes(agent) THEN pointers[agent] + 1
                   ELSE pointers[agent]]
     IN /\ bundles' = [agent \in A |->
             IF Adds(agent) THEN Append(bundles[agent], item(agent))
             ELSE bundles[agent]]
        /\ values' = [agent \in A |->
             IF Adds(agent) THEN values[agent] + val(agent)
             ELSE values[agent]]
        /\ pointers' = ptrs
        /\ pc' = IF AllExhausted(ptrs) THEN "select" ELSE "while"
  /\ UNCHANGED << valuations, remaining_agents, remaining_items,
                  alloc_bundles, Vn_alpha_i, sorted_items, calls, given >>
  /\ UNCHANGED vnVars

\* line 187: the while condition is false
ExitLoop ==
  /\ pc = "while"
  /\ ~AllBelow
  /\ pc' = "select"
  /\ UNCHANGED << valuations, remaining_agents, remaining_items,
                  alloc_bundles, bundles, values, pointers, Vn_alpha_i,
                  sorted_items, calls, given >>
  /\ UNCHANGED vnVars

\* mutant: the first remaining agent, whether it passed or not
FirstRemaining ==
  CHOOSE j \in 1..Len(remaining_agents) :
    \A h \in 1..Len(remaining_agents) : j <= h

\* mutant: the last agent, in the order of remaining_agents, that passed
LastPassed ==
  CHOOSE j \in 1..Len(remaining_agents) :
    /\ Passed(remaining_agents[j])
    /\ \A h \in (j + 1)..Len(remaining_agents) : ~Passed(remaining_agents[h])

\* the first agent, in the order of remaining_agents, that passed
FirstPassed ==
  CHOOSE j \in 1..Len(remaining_agents) :
    /\ Passed(remaining_agents[j])
    /\ \A h \in 1..(j - 1) : ~Passed(remaining_agents[h])

\* mutant: the loop of lines 201-208 without its break: every agent that
\* passed its threshold is given its bundle
ChooseAgentNoBreak ==
  /\ pc = "select"
  /\ LET P == {a \in Range(remaining_agents) : Passed(a)}
     IN /\ alloc_bundles' = [a \in DOMAIN alloc_bundles |->
             IF a \in P THEN alloc_bundles[a] \o bundles[a]
             ELSE alloc_bundles[a]]
        /\ remaining_items' =
             Without(remaining_items, UNION {Range(bundles[a]) : a \in P})
        /\ remaining_agents' = Without(remaining_agents, P)
        /\ given' = [a \in P |-> [n |-> Len(remaining_agents),
                                  items |-> remaining_items,
                                  threshold |-> Vn_alpha_i[a]]] @@ given
  /\ bundles' = NoLocals
  /\ values' = NoLocals
  /\ pointers' = NoLocals
  /\ Vn_alpha_i' = NoLocals
  /\ sorted_items' = NoLocals
  /\ pc' = "call"
  /\ UNCHANGED << valuations, calls >>
  /\ UNCHANGED vnVars

\* lines 200-213: give the bundle to the first agent that passed its
\* threshold (if any) and make the recursive call
ChooseAgent ==
  /\ pc = "select"
  /\ IF \E j \in 1..Len(remaining_agents) : Passed(remaining_agents[j])
     THEN LET agent == remaining_agents[FirstPassed]
              bundle == bundles[agent]
          IN /\ alloc_bundles' = GiveBundleBundles(agent, bundle)
             /\ remaining_items' = GiveBundleItems(agent, bundle)
             /\ remaining_agents' =
                  remove_agent_from_loop(GiveBundleAgents(agent, bundle), agent)
             /\ given' = (agent :> [n |-> Len(remaining_agents),
                                    items |-> remaining_items,
                                    threshold |-> Vn_alpha_i[agent]]) @@ given
     ELSE UNCHANGED << alloc_bundles, remaining_items, remaining_agents,
                       given >>
  /\ bundles' = NoLocals
  /\ values' = NoLocals
  /\ pointers' = NoLocals
  /\ Vn_alpha_i' = NoLocals
  /\ sorted_items' = NoLocals
  /\ pc' = "call"
  /\ UNCHANGED << valuations, calls >>
  /\ UNCHANGED vnVars

\* ---------------------------------------------- compute_vn on its own
AllocIdle ==
  /\ valuations = << >>
  /\ remaining_agents = << >>
  /\ remaining_items = << >>
  /\ alloc_bundles = << >>
  /\ pc = "idle"
  /\ bundles = NoLocals
  /\ values = NoLocals
  /\ pointers = NoLocals
  /\ Vn_alpha_i = NoLocals
  /\ sorted_items = NoLocals
  /\ calls = 0
  /\ given = << >>

\* alpha = p/q + off*delta, n; and the alphas 1/q + off*delta around the
\* lowest interval end the loop reaches, 1/((KStop - 1 + 1) * n - 1)
InitVn ==
  /\ AllocIdle
  /\ vn_n \in 0..MaxN
  /\ \/ \E q \in 1..MaxDen, p \in 0..MaxDen, o \in -1..1 :
          /\ (p = 0 => o >= 0)
          /\ vn_alpha = Num(p, q, o)
     \/ \E j \in 0..MaxDen, o \in -1..1 :
          /\ vn_n >= 1
          /\ vn_alpha = Num(1, KStop * vn_n - 1 + j, o)
  /\ vn_result = Zero
  /\ vn_pc = "ready"

CallComputeVn ==
  /\ vn_pc = "ready"
  /\ vn_result' = compute_vn(vn_alpha, vn_n)
  /\ vn_pc' = "returned"
  /\ UNCHANGED << vn_alpha, vn_n >>
  /\ UNCHANGED allocVars

NextVn == CallComputeVn

SpecVn == InitVn /\ [][NextVn]_vars

Next == BaseCase \/ Precompute \/ GrowRound \/ ExitLoop \/ ChooseAgent

Spec == Init /\ [][Next]_vars

\* the allocation on instances with forbidden items
InitForbidden ==
  /\ \E v \in ForbiddenInstances : InitAlloc(v)
  /\ VnIdle

SpecForbidden == InitForbidden /\ [][Next]_vars

\* the interpreter runs the call to its end: every step that can be taken is
FairSpec == Spec /\ WF_vars(Next)

\* ================================================================ claims
Agents == 1..Len(valuations)
Items == IF Len(valuations) = 0 THEN {} ELSE 1..Len(valuations[1])
AllItemsSeq == [i \in Items |-> i]

\* the value, for its owner, of the bundle given to an agent
BundleValue(agent) ==
  SumSeq(ValuesList(valuations[agent], alloc_bundles[agent]))

RECURSIVE SumLen(_, _)
SumLen(f, S) ==
  IF S = {} THEN 0
  ELSE LET x == CHOOSE y \in S : TRUE IN Len(f[x]) + SumLen(f, S \ {x})

\* C1: when the allocation has finished, every item is in exactly one
\* agent's bundle: the bundles are pairwise disjoint, hold no item twice, and
\* their union is the full item set.
C1_Partition ==
  pc = "done" =>
    /\ \A i \in Items :
         Cardinality({a \in Agents : i \in Range(alloc_bundles[a])}) = 1
    /\ SumLen(alloc_bundles, Agents) = Cardinality(Items)

\* a finished run in which two agents hold items
C1_Witness ==
  /\ pc = "done"
  /\ \E a, b \in Agents :
       a # b /\ alloc_bundles[a] # << >> /\ alloc_bundles[b] # << >>

\* C2: the bundle given to an agent is worth, to that agent, at least
\* Vn(alpha_i, n_i) * total_i, with alpha_i and total_i taken over the items
\* remaining at the level at which the agent was given its bundle and n_i the
\* number of agents remaining at that level (bound 0 for the last agent).
C2_LevelGuarantee ==
  \A a \in DOMAIN given :
    Leq(IF given[a].n = 1 THEN Zero
        ELSE ThresholdOf(valuations[a], given[a].items, given[a].n),
        Rat(BundleValue(a), 1))

\* an agent given a bundle at a level of two or more agents where its
\* threshold was positive and another agent came before it in the order
C2_Witness ==
  \E a \in DOMAIN given :
    /\ given[a].n >= 2
    /\ Less(Zero, ThresholdOf(valuations[a], given[a].items, given[a].n))
    /\ a # 1

C4_Example4 ==
  (valuations = Example4 /\ pc = "done") =>
    alloc_bundles = [a \in 1..6 |-> <<a>>]

\* C5: on doctest Example 2 the allocation is A -> {1}, B -> {2},
\* C -> {3, 4}.
C5_Example2 ==
  (valuations = Example2 /\ pc = "done") =>
    /\ Range(alloc_bundles[1]) = {1}
    /\ Range(alloc_bundles[2]) = {2}
    /\ Range(alloc_bundles[3]) = {3, 4}

\* C6: when the growth rounds have stopped, the agent given its bundle is the
\* first agent, in the order of the remaining agents, whose accumulated value
\* reached its threshold, also when a later agent reached its own in the same
\* round; on doctest Example 1 the result is A -> [1], B -> [2, 3].
C6_Step ==
  pc = "select" =>
    \A j \in 1..Len(remaining_agents) :
      LET a == remaining_agents[j] IN
        (a \in DOMAIN given' /\ a \notin DOMAIN given) =>
          /\ Leq(Vn_alpha_i[a], Rat(values[a], 1))
          /\ \A h \in 1..(j - 1) :
               /\ Less(Rat(values[remaining_agents[h]], 1),
                       Vn_alpha_i[remaining_agents[h]])
               /\ remaining_agents[h] \notin DOMAIN given'
          /\ alloc_bundles'[a] = bundles[a]

C6_FirstInOrder ==
  /\ [][C6_Step]_vars
  /\ [](  (valuations = Example1 /\ pc = "done")
       => alloc_bundles = << <<1>>, <<2, 3>> >>)

\* two agents reached their thresholds in the same round, each with a
\* non-empty candidate bundle
C6_Witness ==
  /\ pc = "select"
  /\ \E j, h \in 1..Len(remaining_agents) :
       /\ j < h
       /\ Passed(remaining_agents[j]) /\ Passed(remaining_agents[h])
       /\ bundles[remaining_agents[j]] # << >>
       /\ bundles[remaining_agents[h]] # << >>

\* C7: the allocation terminates with every agent given a bundle, after
\* exactly as many invocations as there are agents, and no invocation
\* recurses on an unchanged state.
C7_Terminates ==
  /\ <>(pc = "done")
  /\ [](pc = "done" => (calls = Len(valuations) /\ DOMAIN given = Agents))
  /\ [][pc = "select" =>
          Len(remaining_agents') = Len(remaining_agents) - 1]_vars

\* a finished run of three or more agents
C7_Witness ==
  /\ pc = "done"
  /\ Len(valuations) >= 3
  /\ calls = Len(valuations)
  /\ DOMAIN given = Agents
  /\ \E a \in Agents : given[a].n >= 2 /\ alloc_bundles[a] # << >>

\* C8: for n >= 2 and alpha in [0, 1], compute_vn(alpha, n) lies in
\* [0, 1/n].
C8_VnInRange ==
  (/\ vn_pc = "returned"
   /\ vn_n >= 2
   /\ Leq(Zero, vn_alpha)
   /\ Leq(vn_alpha, Rat(1, 1))) =>
    (Leq(Zero, vn_result) /\ Leq(vn_result, Rat(1, vn_n)))

\* C9: for n >= 2 and alpha >= 1/(n-1), compute_vn(alpha, n) is exactly 0.
C9_ZeroAboveBound ==
  (/\ vn_pc = "returned"
   /\ vn_n >= 2
   /\ Leq(Rat(1, vn_n - 1), vn_alpha)) =>
    Equal(vn_result, Zero)

\* C10: when exactly one agent remains, the call gives that agent every item
\* still remaining, computes no threshold and makes no further call.
C10_Step ==
  (pc = "call" /\ Len(remaining_agents) = 1) =>
    LET a == remaining_agents[1] IN
      /\ alloc_bundles'[a] = alloc_bundles[a] \o remaining_items
      /\ \A b \in Agents \ {a} : alloc_bundles'[b] = alloc_bundles[b]
      /\ remaining_items' = << >>
      /\ Vn_alpha_i' = NoLocals /\ values' = NoLocals /\ bundles' = NoLocals
      /\ calls' = calls + 1
      /\ pc' = "done"

C10_BaseCase ==
  /\ [][C10_Step]_vars
  /\ [][pc = "done" => (calls' = calls /\ pc' = "done")]_vars

\* a run of several agents whose last agent received two or more items in
\* the base case
C10_Witness ==
  /\ pc = "done"
  /\ Len(valuations) >= 2
  /\ \E a \in Agents : given[a].n = 1 /\ Len(alloc_bundles[a]) >= 2

\* C11: in a call with n >= 2 agents, when the growth loop has ended some
\* remaining agent has accumulated at least its threshold (the loop never ends
\* by exhaustion alone), so the call gives a bundle to exactly one agent and
\* the remaining agents are one fewer at the recursive call.
C11_Progress ==
  /\ [](pc = "select" =>
          \E a \in Range(remaining_agents) :
            Leq(Vn_alpha_i[a], Rat(values[a], 1)))
  /\ [][pc = "select" =>
          /\ Len(remaining_agents') = Len(remaining_agents) - 1
          /\ Range(remaining_agents') \subseteq Range(remaining_agents)
          /\ Cardinality(DOMAIN given' \ DOMAIN given) = 1]_vars

\* the loop has ended after two or more rounds
C11_Witness ==
  /\ pc = "select"
  /\ Len(remaining_agents) >= 2
  /\ \E a \in Range(remaining_agents) : pointers[a] >= 2

\* The piecewise definition of Vn (docstring, lines 59-73): 1/n at alpha = 0,
\* 0 for alpha >= 1/(n-1), and for alpha in (0, 1/(n-1)) the value of the
\* interval I(n,k) = [I_left, I_right] or NI(n,k) = (NI_left, NI_right) that
\* holds alpha, for the one k with NI_left(n,k) < alpha <= I_right(n,k).
\* An alpha just above 0 lies in the intervals of unboundedly large k, where
\* the value is just below 1/n.
VnRefK(alpha, n) ==
  LET k0 == (alpha.den + alpha.num) \div (alpha.num * n)
  IN CHOOSE k \in {j \in (k0 - 1)..(k0 + 1) : j >= 1} :
       Less(NI_left(n, k), alpha) /\ Leq(alpha, I_right(n, k))

VnRef(alpha, n) ==
  IF n <= 1 THEN Zero
  ELSE IF Equal(alpha, Zero) THEN Rat(1, n)
  ELSE IF Leq(Rat(1, n - 1), alpha) THEN Zero
  ELSE IF alpha.num = 0 THEN Num(1, n, -alpha.off)
  ELSE LET k == VnRefK(alpha, n)
       IN IF Leq(I_left(n, k), alpha)
          THEN OneMinusTimes(k * (n - 1), alpha)
          ELSE OneMinusTimes(1, Rat((k + 1) * (n - 1), (k + 1) * n - 1))

\* C12: compute_vn returns the value of the piecewise definition: 0 for
\* n <= 1, 1/n at alpha = 0, 1 - k(n-1)alpha on I(n,k) and
\* 1 - (k+1)(n-1)/((k+1)n-1) on NI(n,k), also at a boundary shared by two
\* intervals.  (Agreement is taken up to the closeness the code itself tests
\* with, so that only a result that is off by more than that counts.)
C12_AgreesWithReference ==
  (vn_pc = "returned" /\ Leq(Zero, vn_alpha)) =>
    (\/ Equal(vn_result, VnRef(vn_alpha, vn_n))
     \/ IsClose(vn_result, VnRef(vn_alpha, vn_n)))

\* C13: for n >= 2 and 0 < alpha < 1/(n-1) the loop over k finds an interval
\* that holds alpha, so the return after the loop is not reached.
C13_SearchFinds ==
  (/\ vn_pc = "returned"
   /\ vn_n >= 2
   /\ Less(Zero, vn_alpha)
   /\ Less(vn_alpha, Rat(1, vn_n - 1))) =>
    \E k \in 1..(KStop - 1) :
      InI(vn_alpha, vn_n, k) \/ InNI(vn_alpha, vn_n, k)

\* the position of an item in a sequence of items
PosIn(seq, x) == CHOOSE j \in 1..Len(seq) : seq[j] = x

\* item x comes before item y in the owner's preference order over seq:
\* higher value first, equal values in the order of seq
Prefers(agent, seq, x, y) ==
  \/ valuations[agent][x] > valuations[agent][y]
  \/ (valuations[agent][x] = valuations[agent][y]
      /\ PosIn(seq, x) < PosIn(seq, y))

\* b holds the first Len(b) items of seq in the owner's preference order
IsPreferredPrefix(agent, seq, b) ==
  /\ Range(b) \subseteq Range(seq)
  /\ \A j \in 1..(Len(b) - 1) : Prefers(agent, seq, b[j], b[j + 1])
  /\ \A y \in Range(b), x \in Range(seq) \ Range(b) : Prefers(agent, seq, y, x)

\* the value, for the agent, of b without its last item
ValueBeforeLast(agent, b) ==
  SumSeq(ValuesList(valuations[agent], SubSeq(b, 1, Len(b) - 1)))

\* C14: in a call with n >= 2 agents the bundle given is a prefix of the
\* owner's remaining items in descending order of the owner's value, ties in
\* item order, and it is of minimal length: before the last round no
\* remaining agent had reached its threshold, so a non-empty bundle given is
\* worth less than the owner's threshold without its last item.
C14_Step ==
  pc = "select" =>
    \A a \in Range(remaining_agents) :
      (a \in DOMAIN given' /\ a \notin DOMAIN given) =>
        /\ alloc_bundles'[a] = alloc_bundles[a] \o bundles[a]
        /\ IsPreferredPrefix(a, remaining_items_for_agent(a), bundles[a])
        /\ \A c \in Range(remaining_agents) :
             bundles[c] # << >> =>
               Less(Rat(ValueBeforeLast(c, bundles[c]), 1), Vn_alpha_i[c])

C15_Permanent ==
  /\ [](\A a \in DOMAIN given : a \notin Range(remaining_agents))
  /\ [][\A a \in DOMAIN given :
          a \in DOMAIN given' /\ alloc_bundles'[a] = alloc_bundles[a]]_vars

SomeThresholdNotPositive ==
  /\ Len(remaining_agents) >= 2
  /\ \E a \in Range(remaining_agents) : Leq(Vn_alpha_i[a], Zero)

\* the first agent, in the order of remaining_agents, with a threshold <= 0
FirstNotPositive ==
  CHOOSE j \in 1..Len(remaining_agents) :
    /\ Leq(Vn_alpha_i[remaining_agents[j]], Zero)
    /\ \A h \in 1..(j - 1) : ~Leq(Vn_alpha_i[remaining_agents[h]], Zero)

C16_LoopStep ==
  (pc = "while" /\ SomeThresholdNotPositive) =>
    /\ pc' = "select"
    /\ UNCHANGED << bundles, values, pointers >>

C16_SelectStep ==
  (pc = "select" /\ SomeThresholdNotPositive) =>
    LET agent == remaining_agents[FirstNotPositive]
    IN /\ agent \notin DOMAIN given
       /\ agent \in DOMAIN given'
       /\ agent \notin Range(remaining_agents')
       /\ alloc_bundles'[agent] = << >>
       /\ remaining_items' = remaining_items

ZeroTotalAgents ==
  {a \in Range(remaining_agents) :
     SumSeq(ValuesList(valuations[a], remaining_items_for_agent(a))) = 0}

\* C17: at a level with n >= 2 agents, an agent whose total value over its
\* remaining items is 0 has alpha = 0, Vn(alpha) = 1/n and threshold 0, and
\* every bundle of remaining items, the empty one and its candidate bundle
\* included, has a value at or above that threshold.
C17_ZeroTotal ==
  (pc \in {"while", "select"} /\ Len(remaining_agents) >= 2) =>
    \A a \in ZeroTotalAgents :
      /\ AlphaOf(valuations[a], remaining_items_for_agent(a)) = Zero
      /\ Equal(VnTable[<<Zero, Len(remaining_agents)>>],
               Rat(1, Len(remaining_agents)))
      /\ Equal(Vn_alpha_i[a], Zero)
      /\ Passed(a)
      /\ \A S \in SUBSET Range(remaining_items_for_agent(a)) :
           Leq(Vn_alpha_i[a],
               Rat(SumSeq(ValuesList(valuations[a],
                     SelectSeq(remaining_items, LAMBDA x : x \in S))), 1))

\* a level with n >= 2 agents, some items remaining and an agent of total
\* value 0, at the point where the bundle is chosen
C17_Witness ==
  /\ pc = "select"
  /\ Len(remaining_agents) >= 2
  /\ remaining_items # << >>
  /\ \E a \in ZeroTotalAgents : bundles[a] = << >>

\* the items of its sorted list that are forbidden for an agent
ForbiddenFor(agent) ==
  {x \in Range(sorted_items[agent]) : effective_value(agent, x) = NegInf}

\* An agent with a forbidden item among its items has total_val = -inf and
\* the threshold -inf, so the while condition of line 187 is false and no
\* round of a level at which some agent has a forbidden item is taken.
NoRoundWithForbidden ==
  (pc = "while" /\ \E a \in Range(remaining_agents) : ForbiddenFor(a) # {}) =>
    /\ \E a \in Range(remaining_agents) : Vn_alpha_i[a] = NegInfinity
    /\ ~AllBelow

\* no candidate bundle holds an item forbidden for its owner
NoForbiddenInCandidate ==
  \A a \in DOMAIN bundles : Range(bundles[a]) \cap ForbiddenFor(a) = {}

\* a round in which the next item of some agent is forbidden for it
ForbiddenItemMet ==
  /\ pc = "while"
  /\ AllBelow
  /\ \E a \in Range(remaining_agents) :
       /\ pointers[a] < Len(sorted_items[a])
       /\ effective_value(a, sorted_items[a][pointers[a] + 1]) = NegInf

====
